---- MODULE Spec2Model ----
(***************************************************************************)
(* Model of the web-crawler repository:                                    *)
(*   spiders/count_spider.py  CountSpider  (census mode)                   *)
(*   spiders/fast_spider.py   FastSpider   (content mode)                  *)
(*   api.py                   task registry, handle_crawl, start_crawl     *)
(*   api_preview.py           count_urls                                   *)
(* The Scrapy engine that drives the spiders is modelled by the requests   *)
(* it holds: queued in the scheduler, in flight in the downloader, and the *)
(* close of the spider once nothing is in flight.  A spider callback is    *)
(* one action: the generator it returns is drained inside the action.      *)
(* Wall-clock values (start_time, duration, timestamps in files) are not   *)
(* part of the state, except the second-resolution clock that names tasks. *)
(***************************************************************************)
EXTENDS Integers, Sequences, FiniteSets, TLC

\* ------------------------------------------------------------------------
\* Bounds
\* ------------------------------------------------------------------------

\* count_spider.py:23 sets MAX_PAGES = 1000; the model keeps the comparisons
\* of the code and scales the number.
MAX_PAGES == 5

\* custom_settings CONCURRENT_REQUESTS (100 and 32 in the spiders), scaled.
CONCURRENT_REQUESTS == 2

\* largest page_limit a POST /crawl request carries
MaxPageLimit == 2

\* seconds the clock advances
MaxClock == 1

\* ------------------------------------------------------------------------
\* The web the crawls run against: a fixed set of pages, the links each
\* page carries (already resolved by urljoin), the host and path urlparse
\* gives for each URL, and the URL a fetch ends on (response.url).
\* ------------------------------------------------------------------------

None == "None"

ExampleHost == <<"e", "x">>
NotExampleHost == <<"n", "e", "x">>
OtherHost == <<"o">>

URLs == {"p", "s", "b", "c", "d", "e", "w", "w1", "w2", "w3", "w4", "w5",
         "w6", "w7", "r", "t", "x", "n", "m", "m1", "m2", "k"}

netloc(url) ==
  CASE url = "x" -> OtherHost
    [] url = "n" -> NotExampleHost
    [] OTHER -> ExampleHost

\* "e" is the same path as "c" with a query string
path(url) == IF url = "e" THEN "c" ELSE url

\* hrefs of the page at url, in document order, resolved against the page
hrefs(url) ==
  CASE url = "s" -> <<"b", "c">>
    [] url = "b" -> <<"d", "x">>
    [] url = "c" -> <<"e", "c">>
    [] url = "e" -> <<"d", "s">>
    [] url = "d" -> <<"s">>
    [] url = "w" -> <<"w1", "w2", "w1", "w3", "w4", "w5", "w6", "w7">>
    [] url = "r" -> <<"t", "n">>
    [] url = "t" -> <<"r", "t", "n">>
    [] url = "m" -> <<"m1", "m2">>
    [] url = "k" -> <<"r">>
    [] OTHER -> <<>>

\* response.url of a successful fetch of url: "r" redirects to "t"
final_url(url) == IF url = "r" THEN "t" ELSE url

\* seeds a census request may name
CensusSeeds == {"p", "s", "w", "r", "k"}

\* ------------------------------------------------------------------------
\* Dictionaries
\* ------------------------------------------------------------------------

EmptyDict == [k \in {} |-> 0]

\* d[k] = v
SetItem(d, k, v) == [x \in (DOMAIN d) \cup {k} |-> IF x = k THEN v ELSE d[x]]

\* read of a Counter / defaultdict(int)
GetInt(d, k) == IF k \in DOMAIN d THEN d[k] ELSE 0

Max_First(a, b) == a

Max(a, b) == IF a >= b THEN a ELSE b

RECURSIVE SumOver(_, _)
SumOver(f, S) ==
  IF S = {} THEN 0
  ELSE LET k == CHOOSE k \in S : TRUE IN f[k] + SumOver(f, S \ {k})

\* ------------------------------------------------------------------------
\* CountSpider (spiders/count_spider.py)
\* ------------------------------------------------------------------------

CapReason == "Reached maximum limit of 1000 pages"
Finished == "finished"

\* lines 25-43.  start_time (line 35) is a wall-clock value and is left out;
\* the module reads time.time() there without importing time, and the model
\* describes the spider with that name bound.
CountSpider__init__(url) ==
  [ start_url       |-> url,
    allowed_domain  |-> netloc(url),
    url_counter     |-> EmptyDict,
    found_urls      |-> {},
    url_index       |-> EmptyDict,
    url_levels      |-> SetItem(EmptyDict, url, 0),
    level_counts    |-> SetItem(EmptyDict, 0, 1),
    current_index   |-> 1,
    max_level_found |-> 0,
    finished        |-> FALSE,
    stopped_reason  |-> None,
    close_callback  |-> None ]

\* lines 64-73 and 90-99: the bookkeeping of a newly found URL
RecordUrl_NoIndexStep(sp, url, level) ==
  [sp EXCEPT
     !.found_urls = @ \cup {url},
     !.url_index = SetItem(@, url, sp.current_index),
     !.url_counter = SetItem(@, path(url), GetInt(@, path(url)) + 1),
     !.url_levels = SetItem(@, url, level),
     !.level_counts = SetItem(@, level, GetInt(@, level) + 1),
     !.max_level_found = Max(@, level)]

RecordUrl(sp, url, level) ==
  [sp EXCEPT
     !.found_urls = @ \cup {url},
     !.url_index = SetItem(@, url, sp.current_index),
     !.current_index = @ + 1,
     !.url_counter = SetItem(@, path(url), GetInt(@, path(url)) + 1),
     !.url_levels = SetItem(@, url, level),
     !.level_counts = SetItem(@, level, GetInt(@, level) + 1),
     !.max_level_found = Max(@, level)]

\* line 87-89: the test a link must pass to be recorded
LinkAccepted_NoCap(sp, url) ==
  /\ netloc(url) = sp.allowed_domain
  /\ url \notin sp.found_urls

LinkAccepted(sp, url) ==
  /\ netloc(url) = sp.allowed_domain
  /\ url \notin sp.found_urls
  /\ Cardinality(sp.found_urls) < MAX_PAGES

\* lines 83-112: the loop over the links of a page.  st carries the spider
\* and the requests yielded so far.
RECURSIVE ParseLinks(_, _, _, _)
ParseLinks(st, links, i, next_level) ==
  IF i > Len(links) THEN st
  ELSE
    LET url == links[i] IN
    IF LinkAccepted(st.spider, url)
    THEN LET sp1 == RecordUrl(st.spider, url, next_level)
             out == IF Cardinality(sp1.found_urls) < MAX_PAGES
                    THEN st.requests \cup {[url |-> url, level |-> next_level]}
                    ELSE st.requests
         IN ParseLinks([spider |-> sp1, requests |-> out], links, i + 1,
                       next_level)
    ELSE ParseLinks(st, links, i + 1, next_level)

\* line 63: the response URL is recorded only when it is not yet found
NotYetFound_Always(sp, url) == TRUE

NotYetFound(sp, url) == url \notin sp.found_urls

\* lines 51-112: parse(response, current_level).  The result is the spider
\* afterwards, the requests yielded and whether CloseSpider was raised.
CountSpider_parse(sp, response_url, links, current_level) ==
  IF Cardinality(sp.found_urls) >= MAX_PAGES
  THEN IF sp.stopped_reason = None
       THEN [spider |-> [sp EXCEPT !.stopped_reason = CapReason],
             requests |-> {}, close |-> TRUE]
       ELSE [spider |-> sp, requests |-> {}, close |-> FALSE]
  ELSE
    LET sp1 == IF NotYetFound(sp, response_url)
               THEN RecordUrl(sp, response_url, current_level)
               ELSE sp
        st == IF Cardinality(sp1.found_urls) < MAX_PAGES
              THEN ParseLinks([spider |-> sp1, requests |-> {}], links, 1,
                              current_level + 1)
              ELSE [spider |-> sp1, requests |-> {}]
    IN [spider |-> st.spider, requests |-> st.requests, close |-> FALSE]

\* lines 119-120: errback(failure) logs and touches nothing of the spider
CountSpider_errback(sp) == sp

\* lines 138-142: (idx, url, level) of every indexed URL sorted by idx
RECURSIVE SortedByIndex(_, _)
SortedByIndex(sp, S) ==
  IF S = {} THEN <<>>
  ELSE LET u == CHOOSE u \in S : \A v \in S : sp.url_index[u] <= sp.url_index[v]
       IN <<[index |-> sp.url_index[u], url |-> u,
             level |-> sp.url_levels[u]]>>
          \o SortedByIndex(sp, S \ {u})

\* lines 129-135: count and percentage per level; the percentage
\* (count / total) * 100 is kept as the exact fraction num / den
LevelStatistics(sp) ==
  [level \in DOMAIN sp.level_counts |->
     [count |-> sp.level_counts[level],
      percentage |-> [num |-> sp.level_counts[level] * 100,
                      den |-> Cardinality(sp.found_urls)]]]

\* lines 144-165: spider_stats
SpiderStats(sp, reason) ==
  [ total_unique_urls |-> Cardinality(sp.found_urls),
    url_counter       |-> sp.url_counter,
    max_level         |-> sp.max_level_found,
    level_statistics  |-> LevelStatistics(sp),
    ordered_urls      |-> SortedByIndex(sp, DOMAIN sp.url_index),
    reached_limit     |-> Cardinality(sp.found_urls) >= MAX_PAGES,
    reason            |-> IF sp.stopped_reason # None THEN sp.stopped_reason
                          ELSE reason ]


\* ------------------------------------------------------------------------
\* FastSpider (spiders/fast_spider.py)
\* ------------------------------------------------------------------------

PageLimitReason == "Reached page limit"

\* pages whose body is not text: response.css raises in extract_content
NonText == {"w2"}

\* a in b for two strings (hosts are tuples of characters)
IsSubstring(a, b) ==
  \E i \in 0..(Len(b) - Len(a)) : SubSeq(b, i + 1, i + Len(a)) = a

\* a multiset of URLs as a dict of positive counts
BagAdd(bag, url) == SetItem(bag, url, GetInt(bag, url) + 1)

BagRemove(bag, url) ==
  [u \in (DOMAIN bag) \ (IF bag[url] = 1 THEN {url} ELSE {}) |->
     IF u = url THEN bag[u] - 1 ELSE bag[u]]

BagSize(bag) == SumOver(bag, DOMAIN bag)

RECURSIVE BagAddAll(_, _)
BagAddAll(bag, urls) ==
  IF urls = <<>> THEN bag ELSE BagAddAll(BagAdd(bag, Head(urls)), Tail(urls))

\* a directory that does not exist
NoDir == [exists |-> FALSE, index |-> <<>>, pages |-> EmptyDict]

IndexLine(kind, n, url, reason) ==
  [kind |-> kind, n |-> n, url |-> url, reason |-> reason]

\* lines 23-30
FastSpider__init__(url, page_limit, task_id) ==
  [ start_url     |-> url,
    allowed_domain |-> netloc(url),
    page_limit    |-> page_limit,
    pages_crawled |-> 0,
    visited_urls  |-> {},
    task_id       |-> task_id ]

\* lines 33-35 and 52-58: the directory crawled_pages_<task_id> is created
\* when missing and index.txt is opened with 'w' and given its header
setup_logging(dir, url, page_limit) ==
  [ exists |-> TRUE,
    index  |-> <<IndexLine("start", page_limit, url, None)>>,
    pages  |-> dir.pages ]

\* lines 64-103: the content of a page, or None when extraction raises
extract_content(url) ==
  IF url \in NonText
  THEN [ok |-> FALSE, url |-> url, links |-> <<>>]
  ELSE [ok |-> TRUE, url |-> url, links |-> hrefs(url)]

\* lines 105-139: page_<n>.txt is written; a failure to open it is logged
save_content(dir, content, n) ==
  IF dir.exists THEN [dir EXCEPT !.pages = SetItem(@, n, content.url)]
  ELSE dir

\* line 144
LimitReached_Never(sp) == FALSE

LimitReached(sp) == sp.pages_crawled >= sp.page_limit

\* line 172
FollowLinks_AtLimit(sp) == sp.pages_crawled <= sp.page_limit

FollowLinks_Always(sp) == TRUE

FollowLinks(sp) == sp.pages_crawled < sp.page_limit

\* lines 175-176
LinkFollowed(sp, url) ==
  /\ url \notin sp.visited_urls
  /\ IsSubstring(sp.allowed_domain, netloc(url))

RECURSIVE FollowedLinks(_, _)
FollowedLinks(sp, links) ==
  IF links = <<>> THEN <<>>
  ELSE (IF LinkFollowed(sp, Head(links)) THEN <<Head(links)>> ELSE <<>>)
       \o FollowedLinks(sp, Tail(links))

\* lines 155 and 160: the number of the page being stored
PageNumber(sp) == sp.pages_crawled + 1

\* lines 149-185: the part of parse behind the limit check.  The result is
\* the spider afterwards, the task's directory, the requests yielded and
\* whether close_spider was called.
ProcessPage(sp, dir, response_url) ==
  IF response_url \in sp.visited_urls
  THEN [spider |-> sp, dir |-> dir, requests |-> <<>>, close |-> FALSE]
  ELSE
    LET content == extract_content(response_url) IN
    IF ~content.ok
    THEN [spider |-> sp, dir |-> dir, requests |-> <<>>, close |-> FALSE]
    ELSE
      LET n == PageNumber(sp)
          dir1 == save_content(dir, content, n)
      IN IF ~dir1.exists
         \* open(index_file, 'a') raises and line 184 catches it
         THEN [spider |-> sp, dir |-> dir1, requests |-> <<>>,
               close |-> FALSE]
         ELSE
           LET dir2 == [dir1 EXCEPT !.index =
                          Append(@, IndexLine("page", n, response_url, None))]
               sp1 == [sp EXCEPT !.visited_urls = @ \cup {response_url},
                                 !.pages_crawled = @ + 1]
           IN [spider |-> sp1, dir |-> dir2,
               requests |-> IF FollowLinks(sp1)
                            THEN FollowedLinks(sp1, content.links)
                            ELSE <<>>,
               close |-> FALSE]

\* lines 141-185: parse(response): at the limit close_spider is called and
\* the response is dropped (lines 144-147)
FastSpider_parse_NoReturn(sp, dir, response_url) ==
  [ProcessPage(sp, dir, response_url) EXCEPT !.close = LimitReached(sp)]

FastSpider_parse(sp, dir, response_url) ==
  IF LimitReached(sp)
  THEN [spider |-> sp, dir |-> dir, requests |-> <<>>, close |-> TRUE]
  ELSE ProcessPage(sp, dir, response_url)

\* lines 187-189: errback(failure) writes to the error log and touches
\* nothing of the spider
FastSpider_errback_CountsPage(sp) == [sp EXCEPT !.pages_crawled = @ + 1]

FastSpider_errback(sp) == sp

\* lines 191-205: closed(reason) appends the summary to index.txt
FastSpider_closed(sp, dir, reason) ==
  IF dir.exists
  THEN [dir EXCEPT !.index =
          Append(@, IndexLine("finish", sp.pages_crawled, None, reason))]
  ELSE dir

\* ------------------------------------------------------------------------
\* State
\* ------------------------------------------------------------------------

VARIABLES
  census,      \* per census crawl: the CountSpider, its engine slot, its stats
  now,         \* datetime.now() in whole seconds
  crawl_tasks, \* api.py crawl_tasks: task id -> task
  status_log,  \* per task id, the values written to its "status" so far
  content,     \* per POST /crawl request: handle_crawl, its FastSpider and
               \* the engine slot of that spider
  source_dirs, \* task id -> the directory crawled_pages_<task id>
  output_dirs, \* task id -> the directory <directory>/<task id>
  spider_results, \* api_preview.py spider_results: spider name -> url_stats
  preview,     \* per POST /count-urls request: count_urls and its response
  project_settings \* the settings the module-level CrawlerRunner was built
               \* with (api.py 83, api_preview.py 73-86)

censusVars == <<census>>
contentVars == <<now, crawl_tasks, status_log, content, source_dirs,
                 output_dirs, project_settings>>
previewVars == <<spider_results, preview>>
vars == <<census, now, crawl_tasks, status_log, content, source_dirs,
          output_dirs, spider_results, preview, project_settings>>

Crawls == {1, 2}
Handlers == {1, 2}
TaskIds == 0..MaxClock

\* URLs robots.txt disallows: with ROBOTSTXT_OBEY in force their fetch is
\* refused and only the errback runs
RobotsDisallowed == {"m2", "w3"}

NoSpider == [start_url |-> None]
NoStats == [reason |-> None]

\* a crawl that crawler_runner.crawl has not been called for
CrawlNotStarted ==
  [ phase |-> "new", spider |-> NoSpider, queued |-> {}, inflight |-> {},
    close_reason |-> None, url_stats |-> NoStats, requested |-> EmptyDict,
    failed |-> {}, robotstxt_obey |-> FALSE ]

\* crawler_runner.crawl('count_spider', url=...): the spider is built and
\* its start request is handed to the scheduler; the crawler takes its
\* settings from the runner
CrawlOpened(url) ==
  [ phase |-> "open", spider |-> CountSpider__init__(url),
    queued |-> {[url |-> url, level |-> 0]}, inflight |-> {},
    close_reason |-> None, url_stats |-> NoStats,
    requested |-> SetItem(EmptyDict, url, 1), failed |-> {},
    robotstxt_obey |-> project_settings.ROBOTSTXT_OBEY ]

\* ------------------------------------------------------------------------
\* Census actions
\* ------------------------------------------------------------------------

\* the engine takes a request from the scheduler and sends it to the
\* downloader; it takes none once the spider is closing
CensusDownload(c) ==
  /\ census[c].phase = "open"
  /\ Cardinality(census[c].inflight) < CONCURRENT_REQUESTS
  /\ \E req \in census[c].queued :
       census' = [census EXCEPT ![c].queued = @ \ {req},
                                ![c].inflight = @ \cup {req}]

\* requested counts, per URL, the requests the spider has handed to the
\* engine; S is the set of URLs requested by one callback
CountRequests(requested, S) ==
  [u \in (DOMAIN requested) \cup S |->
     GetInt(requested, u) + (IF u \in S THEN 1 ELSE 0)]

\* a fetch succeeds: parse(response, level) runs with the level bound in
\* the request's callback
CensusResponse(c) ==
  /\ census[c].phase \in {"open", "closing"}
  /\ \E req \in census[c].inflight :
       /\ ~(census[c].robotstxt_obey /\ req.url \in RobotsDisallowed)
       /\ LET r == CountSpider_parse(census[c].spider, final_url(req.url),
                                  hrefs(final_url(req.url)), req.level)
          IN census' = [census EXCEPT
               ![c].spider = r.spider,
               ![c].inflight = @ \ {req},
               ![c].queued = @ \cup r.requests,
               ![c].requested = CountRequests(@, {q.url : q \in r.requests}),
               ![c].phase = IF r.close THEN "closing" ELSE @,
               ![c].close_reason = IF r.close THEN r.spider.stopped_reason
                                   ELSE @]

\* a fetch fails: errback only logs
CensusErrback(c) ==
  /\ census[c].phase \in {"open", "closing"}
  /\ \E req \in census[c].inflight :
       census' = [census EXCEPT ![c].spider = CountSpider_errback(@),
                                ![c].inflight = @ \ {req},
                                ![c].failed = @ \cup {req.url}]

\* spider_closed(spider, reason), lines 122-171
CountSpider_spider_closed(cr, reason) ==
  IF cr.spider.finished THEN cr
  ELSE IF Cardinality(cr.spider.found_urls) = 0
       \* line 132 divides by len(found_urls): the handler raises after
       \* setting finished, and url_stats is never stored
       THEN [cr EXCEPT !.spider.finished = TRUE]
       ELSE [cr EXCEPT !.spider.finished = TRUE,
                       !.url_stats = SpiderStats(cr.spider, reason)]

\* api_preview.py 91-95: the callback count_urls passes to the spider
spider_closed(results, url_stats) == SetItem(results, "count_spider", url_stats)

\* lines 170-171: close_callback(self) runs when spider_closed got that far
CloseCallback(results, before, after) ==
  IF /\ ~before.spider.finished
     /\ after.url_stats # NoStats
     /\ after.spider.close_callback = "spider_closed"
  THEN spider_closed(results, after.url_stats)
  ELSE results

\* nothing queued and nothing in flight: the engine closes the idle spider
\* with reason 'finished'
CensusIdle(c) ==
  /\ census[c].phase = "open"
  /\ census[c].queued = {}
  /\ census[c].inflight = {}
  /\ LET after == CountSpider_spider_closed(census[c], Finished)
     IN /\ census' = [census EXCEPT
             ![c] = [after EXCEPT !.phase = "closed",
                                  !.close_reason = Finished]]
        /\ spider_results' = CloseCallback(spider_results, census[c], after)

\* CloseSpider was raised and the requests in flight have drained
CensusClosed(c) ==
  /\ census[c].phase = "closing"
  /\ census[c].inflight = {}
  /\ LET after == CountSpider_spider_closed(census[c], census[c].close_reason)
     IN /\ census' = [census EXCEPT ![c] = [after EXCEPT !.phase = "closed"]]
        /\ spider_results' = CloseCallback(spider_results, census[c], after)

NextCensus ==
  \E c \in Crawls :
    \/ CensusDownload(c) /\ UNCHANGED <<contentVars, previewVars>>
    \/ CensusResponse(c) /\ UNCHANGED <<contentVars, previewVars>>
    \/ CensusErrback(c) /\ UNCHANGED <<contentVars, previewVars>>
    \/ CensusIdle(c) /\ UNCHANGED <<contentVars, preview>>
    \/ CensusClosed(c) /\ UNCHANGED <<contentVars, preview>>

\* ------------------------------------------------------------------------
\* Census API: api_preview.py
\* ------------------------------------------------------------------------

NoResponse == [status |-> None]

\* a request slot no POST /count-urls arrives for
PreviewAbsent ==
  [ pc |-> "absent", request |-> [url |-> None, robots_txt |-> TRUE],
    response |-> NoResponse ]

\* a POST /count-urls request on its way to count_urls
PreviewPending(req) == [PreviewAbsent EXCEPT !.pc = "pending", !.request = req]

\* lines 125-139: the response built from spider_results['count_spider'];
\* top_paths is url_counter cut to ten entries, execution_time and message
\* are wall-clock texts
URLCountResponse(url, result) ==
  [ url              |-> url,
    total_urls       |-> result.total_unique_urls,
    top_paths        |-> result.url_counter,
    ordered_urls     |-> result.ordered_urls,
    max_level        |-> result.max_level,
    level_statistics |-> result.level_statistics,
    status           |-> "completed",
    reason           |-> result.reason ]

\* count_urls up to its first await, lines 102-121: the old result is
\* deleted and crawler_runner.crawl builds the spider with the callback.
\* Lines 111-112 set ROBOTSTXT_OBEY = request.robots_txt on a settings
\* object of their own, which no crawler is given.
CountUrlsStart(c) ==
  /\ preview[c].pc = "pending"
  /\ spider_results' = [k \in (DOMAIN spider_results) \ {"count_spider"} |->
                          spider_results[k]]
  /\ census' = [census EXCEPT
       ![c] = [CrawlOpened(preview[c].request.url) EXCEPT
                 !.spider.close_callback = "spider_closed"]]
  /\ preview' = [preview EXCEPT ![c].pc = "waiting"]
  /\ UNCHANGED contentVars

\* lines 120-139: the loop sees the key and the response is returned; while
\* the key is missing the loop sleeps and looks again
CountUrlsReturn(c) ==
  /\ preview[c].pc = "waiting"
  /\ "count_spider" \in DOMAIN spider_results
  /\ preview' = [preview EXCEPT
       ![c].pc = "returned",
       ![c].response = URLCountResponse(preview[c].request.url,
                                        spider_results["count_spider"])]
  /\ UNCHANGED <<census, spider_results, contentVars>>

NextPreview ==
  \/ NextCensus
  \/ \E c \in Crawls :
       \/ CountUrlsStart(c)
       \/ CountUrlsReturn(c)


\* ------------------------------------------------------------------------
\* Content mode: api.py and the engine slot of each FastSpider
\* ------------------------------------------------------------------------

NoRequest == [url |-> None, page_limit |-> 0, obey_robots |-> TRUE]

\* a handler no request arrives for
HandlerAbsent ==
  [ pc |-> "absent", request |-> NoRequest, task_id |-> -1,
    spider |-> NoSpider, phase |-> "new", queued |-> EmptyDict,
    inflight |-> EmptyDict, close_reason |-> None, requested |-> EmptyDict,
    failed |-> {}, upload |-> None, robotstxt_obey |-> FALSE ]

\* a POST /crawl request on its way to start_crawl
HandlerPending(req) == [HandlerAbsent EXCEPT !.pc = "pending", !.request = req]

GetSeq(d, k) == IF k \in DOMAIN d THEN d[k] ELSE <<>>

\* crawl_tasks[task_id]["status"] = status, and the record of that write
SetStatus(tasks, task_id, status) ==
  [tasks EXCEPT ![task_id].status = status]

LogStatus(log, task_id, status) ==
  SetItem(log, task_id, Append(GetSeq(log, task_id), status))

\* api.py 192: task_<YYYYmmdd_HHMMSS> of the current second
NewTaskId(t, tasks) == t

\* start_crawl, api.py 186-233
StartCrawl(h) ==
  /\ content[h].pc = "pending"
  /\ LET task_id == NewTaskId(now, crawl_tasks)
         req == content[h].request
     IN /\ crawl_tasks' = SetItem(crawl_tasks, task_id,
               [ status |-> "starting", url |-> req.url,
                 page_limit |-> req.page_limit, gcs_path |-> None,
                 error |-> None ])
        /\ status_log' = LogStatus(status_log, task_id, "starting")
        /\ content' = [content EXCEPT ![h].pc = "created",
                                      ![h].task_id = task_id]
  /\ UNCHANGED <<census, previewVars, project_settings>>
  /\ UNCHANGED <<now, source_dirs, output_dirs>>

\* handle_crawl up to "await future" in run_spider, api.py 155-156 and
\* 120-145: the status becomes running and runner.crawl builds the spider
\* and schedules its start request.  Lines 123-124 set ROBOTSTXT_OBEY =
\* obey_robots on a settings object of their own; the crawler takes its
\* settings from the runner.
HandleCrawlRun(h) ==
  /\ content[h].pc = "created"
  /\ LET task_id == content[h].task_id
         req == content[h].request
     IN /\ crawl_tasks' = SetStatus(crawl_tasks, task_id, "running")
        /\ status_log' = LogStatus(status_log, task_id, "running")
        /\ source_dirs' = [source_dirs EXCEPT ![task_id] =
                             setup_logging(@, req.url, req.page_limit)]
        /\ content' = [content EXCEPT
             ![h].pc = "crawling",
             ![h].spider = FastSpider__init__(req.url, req.page_limit,
                                              task_id),
             ![h].phase = "open",
             ![h].robotstxt_obey = project_settings.ROBOTSTXT_OBEY,
             ![h].queued = BagAdd(EmptyDict, req.url),
             ![h].requested = BagAdd(EmptyDict, req.url)]
  /\ UNCHANGED <<census, previewVars, project_settings>>
  /\ UNCHANGED <<now, output_dirs>>

\* the engine sends a scheduled request to the downloader
ContentDownload(h) ==
  /\ content[h].phase = "open"
  /\ BagSize(content[h].inflight) < CONCURRENT_REQUESTS
  /\ \E url \in DOMAIN content[h].queued :
       content' = [content EXCEPT ![h].queued = BagRemove(@, url),
                                  ![h].inflight = BagAdd(@, url)]
  /\ UNCHANGED <<census, previewVars, project_settings>>
  /\ UNCHANGED <<now, crawl_tasks, status_log, source_dirs,
                 output_dirs>>

\* a fetch succeeds and parse(response) runs
ContentResponse(h) ==
  /\ content[h].phase \in {"open", "closing"}
  /\ \E url \in DOMAIN content[h].inflight :
       LET task_id == content[h].task_id
           r == FastSpider_parse(content[h].spider, source_dirs[task_id],
                                 final_url(url))
       IN /\ ~(content[h].robotstxt_obey /\ url \in RobotsDisallowed)
          /\ content' = [content EXCEPT
               ![h].spider = r.spider,
               ![h].inflight = BagRemove(@, url),
               ![h].queued = BagAddAll(@, r.requests),
               ![h].requested = BagAddAll(@, r.requests),
               ![h].phase = IF r.close THEN "closing" ELSE @,
               ![h].close_reason = IF r.close /\ @ = None
                                   THEN PageLimitReason ELSE @]
          /\ source_dirs' = [source_dirs EXCEPT ![task_id] = r.dir]
  /\ UNCHANGED <<census, previewVars, project_settings>>
  /\ UNCHANGED <<now, crawl_tasks, status_log, output_dirs>>

\* a fetch fails: errback only logs
ContentErrback(h) ==
  /\ content[h].phase \in {"open", "closing"}
  /\ \E url \in DOMAIN content[h].inflight :
       content' = [content EXCEPT ![h].spider = FastSpider_errback(@),
                                  ![h].inflight = BagRemove(@, url),
                                  ![h].failed = @ \cup {url}]
  /\ UNCHANGED <<census, previewVars, project_settings>>
  /\ UNCHANGED <<now, crawl_tasks, status_log, source_dirs,
                 output_dirs>>

\* nothing scheduled and nothing in flight: the engine closes the idle
\* spider with reason 'finished'
ContentIdle(h) ==
  /\ content[h].phase = "open"
  /\ content[h].queued = EmptyDict
  /\ content[h].inflight = EmptyDict
  /\ content' = [content EXCEPT ![h].phase = "closed",
                                ![h].close_reason = Finished]
  /\ source_dirs' = [source_dirs EXCEPT ![content[h].task_id] =
                       FastSpider_closed(content[h].spider, @, Finished)]
  /\ UNCHANGED <<census, previewVars, project_settings>>
  /\ UNCHANGED <<now, crawl_tasks, status_log, output_dirs>>

\* close_spider was called and the requests in flight have drained
ContentClosed(h) ==
  /\ content[h].phase = "closing"
  /\ content[h].inflight = EmptyDict
  /\ content' = [content EXCEPT ![h].phase = "closed"]
  /\ source_dirs' = [source_dirs EXCEPT ![content[h].task_id] =
                       FastSpider_closed(content[h].spider, @,
                                         content[h].close_reason)]
  /\ UNCHANGED <<census, previewVars, project_settings>>
  /\ UNCHANGED <<now, crawl_tasks, status_log, output_dirs>>

\* api.py 159-170: the output directory is created when missing, the files
\* of the source directory are copied over it and the source is removed
MoveFiles_RemoveOnly(src, out) == [out EXCEPT !.exists = TRUE]

MoveFiles(src, out) ==
  IF src.exists
  THEN [ exists |-> TRUE, index |-> src.index,
         pages |-> [n \in (DOMAIN out.pages) \cup (DOMAIN src.pages) |->
                      IF n \in DOMAIN src.pages THEN src.pages[n]
                      ELSE out.pages[n]] ]
  ELSE [out EXCEPT !.exists = TRUE]

HasFiles(dir) == dir.index # <<>> \/ DOMAIN dir.pages # {}

\* handle_crawl after the crawl, api.py 158-184: the files are moved,
\* upload_to_gcs runs and the task becomes completed, or failed when the
\* upload raises (no file could be uploaded)
HandleCrawlFinish(h) ==
  /\ content[h].pc = "crawling"
  /\ content[h].phase = "closed"
  /\ LET task_id == content[h].task_id
         out == MoveFiles(source_dirs[task_id], output_dirs[task_id])
     IN /\ output_dirs' = [output_dirs EXCEPT ![task_id] = out]
        /\ source_dirs' = [source_dirs EXCEPT ![task_id] = NoDir]
        /\ \E uploaded \in BOOLEAN :
             /\ uploaded => HasFiles(out)
             /\ IF uploaded
                THEN /\ crawl_tasks' =
                          [SetStatus(crawl_tasks, task_id, "completed")
                             EXCEPT ![task_id].gcs_path = task_id]
                     /\ status_log' = LogStatus(status_log, task_id,
                                                "completed")
                ELSE /\ crawl_tasks' =
                          [SetStatus(crawl_tasks, task_id, "failed")
                             EXCEPT ![task_id].error = "upload"]
                     /\ status_log' = LogStatus(status_log, task_id, "failed")
             /\ content' = [content EXCEPT
                  ![h].pc = "done",
                  ![h].upload = IF uploaded THEN "ok" ELSE "error"]
  /\ UNCHANGED <<census, previewVars, project_settings>>
  /\ UNCHANGED <<now>>

\* a second passes
Tick ==
  /\ now < MaxClock
  /\ now' = now + 1
  /\ UNCHANGED <<census, previewVars, project_settings>>
  /\ UNCHANGED <<crawl_tasks, status_log, content, source_dirs,
                 output_dirs>>

NextContent ==
  \/ Tick
  \/ \E h \in Handlers :
       \/ StartCrawl(h)
       \/ HandleCrawlRun(h)
       \/ ContentDownload(h)
       \/ ContentResponse(h)
       \/ ContentErrback(h)
       \/ ContentIdle(h)
       \/ ContentClosed(h)
       \/ HandleCrawlFinish(h)

\* seeds and requests
ContentSeeds == {"p", "s", "w", "r"}
ContentRequests ==
  [url : ContentSeeds, page_limit : 1..MaxPageLimit, obey_robots : {TRUE}]
ApiRequests ==
  [url : {"p", "m"}, page_limit : 1..MaxPageLimit, obey_robots : {TRUE}]

\* the registry and the directories before any request is handled
RegistryIdle ==
  /\ now = 0
  /\ crawl_tasks = EmptyDict
  /\ status_log = EmptyDict
  /\ source_dirs = [t \in TaskIds |-> NoDir]
  /\ output_dirs = [t \in TaskIds |-> NoDir]

\* the state of api.py after import, before any request is handled; the
\* project sets no ROBOTSTXT_OBEY and scrapy's default applies
ApiIdle ==
  /\ RegistryIdle
  /\ project_settings = [ROBOTSTXT_OBEY |-> FALSE]

\* api_preview.py after import, before any request is handled
PreviewIdle ==
  /\ spider_results = EmptyDict
  /\ preview = [c \in Crawls |-> PreviewAbsent]

CensusIdleInit ==
  /\ census = [c \in Crawls |-> CrawlNotStarted]
  /\ PreviewIdle

\* one POST /crawl request
InitContent ==
  /\ ApiIdle
  /\ CensusIdleInit
  /\ \E req \in ContentRequests :
       content = [h \in Handlers |-> IF h = 1 THEN HandlerPending(req)
                                     ELSE HandlerAbsent]

SpecContent == InitContent /\ [][NextContent]_vars

\* two POST /crawl requests
InitApi ==
  /\ ApiIdle
  /\ CensusIdleInit
  /\ \E r1, r2 \in ApiRequests :
       content = [h \in Handlers |-> HandlerPending(IF h = 1 THEN r1 ELSE r2)]

SpecApi == InitApi /\ [][NextContent]_vars

ContentIdleInit == ApiIdle /\ content = [h \in Handlers |-> HandlerAbsent]

\* one census crawl of any seed
InitCensus ==
  /\ ContentIdleInit
  /\ PreviewIdle
  /\ \E url \in CensusSeeds :
       census = [c \in Crawls |-> IF c = 1 THEN CrawlOpened(url)
                                  ELSE CrawlNotStarted]

SpecCensus == InitCensus /\ [][NextCensus]_vars

\* one crawl in either mode: a census crawl or a POST /crawl request
InitCrawl == InitCensus \/ InitContent

NextCrawl == NextCensus \/ NextContent

SpecCrawl == InitCrawl /\ [][NextCrawl]_vars

\* the steps of the engine and of the callbacks of one crawl
CensusStep(c) ==
  \/ CensusDownload(c) /\ UNCHANGED <<contentVars, previewVars>>
  \/ CensusResponse(c) /\ UNCHANGED <<contentVars, previewVars>>
  \/ CensusErrback(c) /\ UNCHANGED <<contentVars, previewVars>>
  \/ CensusIdle(c) /\ UNCHANGED <<contentVars, preview>>
  \/ CensusClosed(c) /\ UNCHANGED <<contentVars, preview>>

ContentStep(h) ==
  \/ StartCrawl(h)
  \/ HandleCrawlRun(h)
  \/ ContentDownload(h)
  \/ ContentResponse(h)
  \/ ContentErrback(h)
  \/ ContentIdle(h)
  \/ ContentClosed(h)
  \/ HandleCrawlFinish(h)

NextFair ==
  \/ \E c \in Crawls : CensusStep(c)
  \/ \E h \in Handlers : ContentStep(h)

\* seeds of the crawls followed to their end: a site whose links form a
\* cycle behind a redirect, and a site with pages that cannot be fetched
FairSeeds == {"r", "s", "p"}

InitFair ==
  \/ InitCensus /\ census[1].spider.start_url \in FairSeeds
  \/ InitContent /\ content[1].request.url \in FairSeeds

\* one crawl in either mode, where the reactor keeps running: a scheduled
\* request is sent when a slot is free, every fetch ends with a response or
\* a failure (DOWNLOAD_TIMEOUT), and a callback that can run does run.
\* Which of response and failure a fetch ends with is left open.
SpecFair ==
  /\ InitFair
  /\ [][NextFair]_vars
  /\ \A c \in Crawls : WF_vars(CensusStep(c))
  /\ \A h \in Handlers : WF_vars(ContentStep(h))

\* two census crawls of the same seed, run side by side
InitCensusPair ==
  /\ ContentIdleInit
  /\ PreviewIdle
  /\ \E url \in CensusSeeds : census = [c \in Crawls |-> CrawlOpened(url)]

SpecCensusPair == InitCensusPair /\ [][NextCensus]_vars

PreviewRequests == [url : CensusSeeds, robots_txt : {TRUE}]

\* two POST /count-urls requests
InitPreview ==
  /\ ContentIdleInit
  /\ census = [c \in Crawls |-> CrawlNotStarted]
  /\ spider_results = EmptyDict
  /\ \E r1, r2 \in PreviewRequests :
       preview = [c \in Crawls |-> PreviewPending(IF c = 1 THEN r1 ELSE r2)]

SpecPreview == InitPreview /\ [][NextPreview]_vars

\* one request, POST /crawl or POST /count-urls, with either value of its
\* robots flag, against a project with either value of ROBOTSTXT_OBEY
RobotsCrawlRequests ==
  [url : {"p", "m"}, page_limit : 1..MaxPageLimit, obey_robots : BOOLEAN]
RobotsCountRequests == [url : {"p", "w"}, robots_txt : BOOLEAN]

InitRobots ==
  /\ RegistryIdle
  /\ \E b \in BOOLEAN : project_settings = [ROBOTSTXT_OBEY |-> b]
  /\ census = [c \in Crawls |-> CrawlNotStarted]
  /\ spider_results = EmptyDict
  /\ \/ /\ preview = [c \in Crawls |-> PreviewAbsent]
        /\ \E req \in RobotsCrawlRequests :
             content = [h \in Handlers |-> IF h = 1 THEN HandlerPending(req)
                                           ELSE HandlerAbsent]
     \/ /\ content = [h \in Handlers |-> HandlerAbsent]
        /\ \E req \in RobotsCountRequests :
             preview = [c \in Crawls |-> IF c = 1 THEN PreviewPending(req)
                                         ELSE PreviewAbsent]

NextRobots == NextContent \/ NextPreview

SpecRobots == InitRobots /\ [][NextRobots]_vars

\* ------------------------------------------------------------------------
\* Census claims
\* ------------------------------------------------------------------------

Started(c) == census[c].phase # "new"
HasStats(c) == census[c].url_stats # NoStats
ExhaustedReason == "Completed scanning all available pages"

\* C1: in every reachable state of a census crawl the number of distinct
\* discovered URLs (the size of found_urls) is at most MAX_PAGES.
C1_FoundAtMostCap ==
  \A c \in Crawls :
    Started(c) => Cardinality(census[c].spider.found_urls) <= MAX_PAGES

\* a crawl has found exactly MAX_PAGES URLs on a page with more links left
C1_Witness ==
  \E c \in Crawls :
    /\ Started(c)
    /\ census[c].spider.start_url = "w"
    /\ Cardinality(census[c].spider.found_urls) = MAX_PAGES

\* C2: the reason of a finished census result is the cap message when the
\* crawl reached the cap and the exhaustion message in every other case.
C2_ReasonCapOrExhausted ==
  \A c \in Crawls :
    HasStats(c) =>
      census[c].url_stats.reason =
        IF census[c].url_stats.total_unique_urls >= MAX_PAGES
        THEN CapReason ELSE ExhaustedReason

\* C5: in a finished census result ordered_urls lists every found URL
\* exactly once and its index values are 1..N in ascending order, with
\* N = total_unique_urls.
C5_OrderedUrlsContiguous ==
  \A c \in Crawls :
    HasStats(c) =>
      LET o == census[c].url_stats.ordered_urls
          N == census[c].url_stats.total_unique_urls
      IN /\ Len(o) = N
         /\ \A i \in 1..Len(o) : o[i].index = i
         /\ {o[i].url : i \in 1..Len(o)} = census[c].spider.found_urls
         /\ \A i, j \in 1..Len(o) : o[i].url = o[j].url => i = j

\* a finished result with several URLs found on more than one page
C5_Witness ==
  \E c \in Crawls :
    /\ HasStats(c)
    /\ census[c].url_stats.total_unique_urls >= 4
    /\ census[c].url_stats.max_level >= 2

\* C6: in a finished census result the per-level counts sum to
\* total_unique_urls and the level percentages sum to 100.
C6_LevelCountsSumToTotal ==
  \A c \in Crawls :
    HasStats(c) =>
      LET ls == census[c].url_stats.level_statistics
          N == census[c].url_stats.total_unique_urls
      IN /\ SumOver([l \in DOMAIN ls |-> ls[l].count], DOMAIN ls) = N
         /\ SumOver([l \in DOMAIN ls |-> ls[l].percentage.num], DOMAIN ls)
              = 100 * N

\* C7: a seed that is fetched and has no links gives total 1, max_level 0,
\* level 0 with count 1 and percentage 100, and the exhaustion reason.
C7_SinglePageResult ==
  \A c \in Crawls :
    ( /\ census[c].phase = "closed"
      /\ hrefs(final_url(census[c].spider.start_url)) = <<>>
      /\ census[c].failed = {} ) =>
      /\ HasStats(c)
      /\ census[c].url_stats.total_unique_urls = 1
      /\ census[c].url_stats.max_level = 0
      /\ DOMAIN census[c].url_stats.level_statistics = {0}
      /\ census[c].url_stats.level_statistics[0].count = 1
      /\ census[c].url_stats.level_statistics[0].percentage.num
           = 100 * census[c].url_stats.level_statistics[0].percentage.den
      /\ census[c].url_stats.reason = ExhaustedReason

\* URL-to-level map of a finished result
LevelMap(c) ==
  LET o == census[c].url_stats.ordered_urls
  IN {<<o[i].url, o[i].level>> : i \in 1..Len(o)}

\* C10: two census crawls of the same site in which the same fetches fail,
\* differing only in the order the fetches complete, end with the same
\* URL-to-level map.
C10_LevelsIndependentOfOrder ==
  ( /\ HasStats(1) /\ HasStats(2)
    /\ census[1].spider.start_url = census[2].spider.start_url
    /\ census[1].failed = {} /\ census[2].failed = {} ) =>
    LevelMap(1) = LevelMap(2)

\* the URLs a fetch of url leads to in one step: the links of the page it
\* is answered with, and the URL it is redirected to
LinkedFrom(url) ==
  {hrefs(final_url(url))[i] : i \in 1..Len(hrefs(final_url(url)))}
    \cup {final_url(url)}

\* URLs within n steps of the seed
RECURSIVE Within(_, _)
Within(seed, n) ==
  IF n = 0 THEN {seed}
  ELSE LET W == Within(seed, n - 1)
       IN W \cup UNION {LinkedFrom(v) : v \in W}

Unreachable == Cardinality(URLs) + 1

\* shortest link distance of url from the seed
Distance(seed, url) ==
  IF url \notin Within(seed, Cardinality(URLs)) THEN Unreachable
  ELSE CHOOSE n \in 0..Cardinality(URLs) :
         /\ url \in Within(seed, n)
         /\ \A k \in 0..(n - 1) : url \notin Within(seed, k)

\* C11: every found URL at a level L > 0 is linked from a found URL at
\* level L - 1, and no found URL has a level smaller than its shortest
\* link distance from the seed.
C11_LevelsAreBfsLevels ==
  \A c \in Crawls :
    Started(c) =>
      LET sp == census[c].spider IN
      \A u \in sp.found_urls :
        /\ sp.url_levels[u] > 0 =>
             \E v \in sp.found_urls :
               /\ sp.url_levels[v] = sp.url_levels[u] - 1
               /\ u \in LinkedFrom(v)
        /\ sp.url_levels[u] >= Distance(sp.start_url, u)

\* C13: two concurrent census requests for different seeds each get the
\* statistics of their own crawl: a returned response is built from the
\* url_stats of the crawl its own request started.
C13_OwnStatisticsReturned ==
  \A c \in Crawls :
    ( /\ preview[c].pc = "returned"
      /\ \A d \in Crawls \ {c} :
           preview[d].request.url # preview[c].request.url ) =>
      /\ HasStats(c)
      /\ preview[c].response
           = URLCountResponse(preview[c].request.url, census[c].url_stats)

\* C17: discovering a URL that is already found, as a link or as the URL
\* of a response, changes nothing: every found URL stays found and keeps
\* its index and the level of its first discovery, and the per-level and
\* per-path counts grow only by the URLs found for the first time.
C17_RediscoveryChangesNothing ==
  [][\A c \in Crawls :
       Started(c) =>
         LET sp == census[c].spider
             sq == census'[c].spider
             new == sq.found_urls \ sp.found_urls
         IN /\ sp.found_urls \subseteq sq.found_urls
            /\ \A u \in sp.found_urls :
                 /\ sq.url_index[u] = sp.url_index[u]
                 /\ sq.url_levels[u] = sp.url_levels[u]
            /\ \A l \in DOMAIN sq.level_counts :
                 sq.level_counts[l] - GetInt(sp.level_counts, l)
                   = Cardinality({u \in new : sq.url_levels[u] = l})
            /\ \A q \in DOMAIN sq.url_counter :
                 sq.url_counter[q] - GetInt(sp.url_counter, q)
                   = Cardinality({u \in new : path(u) = q})]_vars

\* a page that was found as a link has been answered, and its links were
\* recorded: the URL of that response was already found
C17_Witness ==
  \E c \in Crawls :
    /\ Started(c)
    /\ census[c].spider.start_url = "s"
    /\ "d" \in census[c].spider.found_urls
    /\ census[c].spider.url_levels["d"] = 2

\* C24: once the seed page was processed, max_level_found is the largest
\* level of a found URL, and every level from 0 to it has a found URL.
C24_MaxLevelAndNoEmptyLevel ==
  \A c \in Crawls :
    (Started(c) /\ census[c].spider.found_urls # {}) =>
      LET sp == census[c].spider
          levels == {sp.url_levels[u] : u \in sp.found_urls}
      IN /\ sp.max_level_found \in levels
         /\ \A l \in levels : l <= sp.max_level_found
         /\ \A l \in 0..sp.max_level_found : l \in levels
         /\ HasStats(c) => census[c].url_stats.max_level = sp.max_level_found

\* a crawl that found a URL three links away from the seed
C24_Witness ==
  \E c \in Crawls :
    /\ Started(c)
    /\ census[c].spider.max_level_found = 3
    /\ \E u \in census[c].spider.found_urls :
         census[c].spider.url_levels[u] = 3

\* no crawl is running and no request is still to start one: nothing is
\* left that could store a result
NothingToCome ==
  \A d \in Crawls :
    /\ census[d].phase \in {"new", "closed"}
    /\ preview[d].pc # "pending"

\* C14: a census crawl that ends with zero results because the seed fetch
\* failed still finishes: its request returns a response with status
\* completed, it is not left waiting for a result that can no longer come.
C14_ZeroResultCrawlReturns ==
  \A c \in Crawls :
    ( /\ census[c].phase = "closed"
      /\ census[c].spider.found_urls = {}
      /\ preview[c].pc # "returned"
      /\ NothingToCome ) =>
      "count_spider" \in DOMAIN spider_results

\* ------------------------------------------------------------------------
\* Content-mode and registry claims
\* ------------------------------------------------------------------------

HasSpider(h) == content[h].pc \in {"crawling", "done"}

\* where the files of a task are: crawled_pages_<id> until handle_crawl
\* moves them to <directory>/<id>
TaskDir(task_id) ==
  IF source_dirs[task_id].exists THEN source_dirs[task_id]
  ELSE output_dirs[task_id]

IndexEntries(dir) == SelectSeq(dir.index, LAMBDA line : line.kind = "page")
IndexSummaries(dir) == SelectSeq(dir.index, LAMBDA line : line.kind = "finish")

\* C3: in every reachable state of a content crawl pages_crawled is at most
\* page_limit, and it is the number of content files and of index entries
\* written.
C3_PagesAtMostLimit ==
  \A h \in Handlers :
    HasSpider(h) =>
      LET sp == content[h].spider
          dir == TaskDir(content[h].task_id)
      IN /\ sp.pages_crawled <= sp.page_limit
         /\ Cardinality(DOMAIN dir.pages) = sp.pages_crawled
         /\ Len(IndexEntries(dir)) = sp.pages_crawled

\* the limit is reached while responses of other requests are still to come
C3_Witness ==
  \E h \in Handlers :
    /\ HasSpider(h)
    /\ content[h].spider.page_limit = 2
    /\ content[h].spider.pages_crawled = 2
    /\ BagSize(content[h].inflight) >= 1

\* C4: when a content crawl has finished, the reason recorded in its index
\* is "Reached page limit" if and only if pages_crawled reached page_limit.
C4_ReasonIffLimit ==
  \A h \in Handlers :
    (HasSpider(h) /\ content[h].phase = "closed") =>
      LET sp == content[h].spider
          fin == IndexSummaries(TaskDir(content[h].task_id))
      IN /\ Len(fin) = 1
         /\ (fin[1].reason = PageLimitReason)
              <=> (sp.pages_crawled >= sp.page_limit)

\* C8: a request with page_limit = 1 whose seed is fetched and extracted
\* never requests anything but the seed, once; when its upload succeeds
\* too, one content file and one index entry exist and the status written
\* for the task was starting, running, completed and nothing else.
ScenarioA(h) ==
  /\ content[h].request.page_limit = 1
  /\ content[h].failed = {}
  /\ extract_content(final_url(content[h].request.url)).ok

C8_OnePageScenario ==
  \A h \in Handlers :
    (HasSpider(h) /\ ScenarioA(h)) =>
      /\ content[h].requested = BagAdd(EmptyDict, content[h].request.url)
      /\ (content[h].pc = "done" /\ content[h].upload = "ok") =>
           LET dir == output_dirs[content[h].task_id]
           IN /\ DOMAIN dir.pages = {1}
              /\ Len(IndexEntries(dir)) = 1
              /\ IndexEntries(dir)[1].url = final_url(content[h].request.url)
              /\ status_log[content[h].task_id]
                   = <<"starting", "running", "completed">>

\* the seed has links, page_limit is 1 and the task has completed
C8_Witness ==
  \E h \in Handlers :
    /\ content[h].pc = "done"
    /\ content[h].upload = "ok"
    /\ ScenarioA(h)
    /\ content[h].request.url = "s"
    /\ content[h].spider.pages_crawled = 1
    /\ crawl_tasks[content[h].task_id].status = "completed"

\* C12: in both modes each URL is handed to the engine for fetching at
\* most once per crawl, also when it is discovered again, when its fetch
\* failed, or while its first fetch is still in flight.
C12_EachUrlRequestedOnce ==
  /\ \A h \in Handlers :
       \A u \in DOMAIN content[h].requested : content[h].requested[u] <= 1
  /\ \A c \in Crawls :
       \A u \in DOMAIN census[c].requested : census[c].requested[u] <= 1

\* C15: when the upload fails after a crawl that stored pages, the task's
\* status is failed and the task's output directory still exists with the
\* index and every content file of the crawl.
C15_UploadFailureKeepsOutput ==
  \A h \in Handlers :
    (content[h].pc = "done" /\ content[h].upload = "error") =>
      LET sp == content[h].spider
          dir == output_dirs[content[h].task_id]
      IN /\ crawl_tasks[content[h].task_id].status = "failed"
         /\ dir.exists
         /\ DOMAIN dir.pages = 1..sp.pages_crawled
         /\ {dir.pages[n] : n \in DOMAIN dir.pages} = sp.visited_urls
         /\ Len(IndexEntries(dir)) = sp.pages_crawled

\* a crawl stored two pages and its upload failed
C15_Witness ==
  \E h \in Handlers :
    /\ content[h].pc = "done"
    /\ content[h].upload = "error"
    /\ content[h].spider.pages_crawled = 2
    /\ crawl_tasks[content[h].task_id].status = "failed"
    /\ ~source_dirs[content[h].task_id].exists

\* C16: the robots flag a request carries (obey_robots of POST /crawl,
\* robots_txt of POST /count-urls) is the ROBOTSTXT_OBEY setting in force
\* for the fetches of the crawl the request starts.
C16_RobotsFlagInForce ==
  /\ \A h \in Handlers :
       HasSpider(h) =>
         content[h].robotstxt_obey = content[h].request.obey_robots
  /\ \A c \in Crawls :
       preview[c].pc \in {"waiting", "returned"} =>
         census[c].robotstxt_obey = preview[c].request.robots_txt

\* URLs of a content crawl whose every fetch was answered and whose page
\* can be extracted, but which was not stored
Unprocessed(h) ==
  {u \in DOMAIN content[h].requested :
     /\ u \notin DOMAIN content[h].queued
     /\ u \notin DOMAIN content[h].inflight
     /\ u \notin content[h].failed
     /\ extract_content(final_url(u)).ok
     /\ final_url(u) \notin content[h].spider.visited_urls}

\* no request moves from the scheduler to the downloader
NoNewFetch(h) ==
  \A u \in DOMAIN content'[h].inflight :
    content'[h].inflight[u] <= GetInt(content[h].inflight, u)

\* C18 as stated: once the spider has been told to close (page limit or
\* census cap reached), no new fetch is issued, and the results of the
\* fetches that were in flight are still processed when they complete: a
\* page that is answered then and can be extracted is stored.
C18_InflightResultsProcessed ==
  [][/\ \A h \in Handlers :
          content[h].phase = "closing" =>
            /\ NoNewFetch(h)
            /\ \A u \in DOMAIN content[h].inflight :
                 ( /\ GetInt(content'[h].inflight, u) < content[h].inflight[u]
                   /\ u \notin content'[h].failed
                   /\ extract_content(final_url(u)).ok ) =>
                   final_url(u) \in content'[h].spider.visited_urls
     /\ \A c \in Crawls :
          census[c].phase = "closing" =>
            census'[c].inflight \subseteq census[c].inflight]_vars

\* C18 amended: once a callback has told the engine to close the spider,
\* no new fetch is issued and nothing is requested; the fetches in flight
\* complete before the spider is closed, and their responses are dropped:
\* no page is stored, no URL is recorded and no link is followed.
C18_InflightResultsDropped ==
  [][/\ \A h \in Handlers :
          content[h].phase = "closing" =>
            LET task_id == content[h].task_id IN
            /\ NoNewFetch(h)
            /\ content'[h].queued = content[h].queued
            /\ content'[h].requested = content[h].requested
            /\ content'[h].spider = content[h].spider
            /\ source_dirs'[task_id].pages = source_dirs[task_id].pages
            /\ IndexEntries(source_dirs'[task_id])
                 = IndexEntries(source_dirs[task_id])
            /\ content'[h].phase = "closed" =>
                 content[h].inflight = EmptyDict
     /\ \A c \in Crawls :
          census[c].phase = "closing" =>
            /\ census'[c].inflight \subseteq census[c].inflight
            /\ census'[c].queued = census[c].queued
            /\ census'[c].requested = census[c].requested
            /\ census'[c].spider
                 = [census[c].spider EXCEPT
                      !.finished = census'[c].spider.finished]
            /\ census'[c].phase = "closed" => census[c].inflight = {}]_vars

\* a content crawl is closing or closed and two fetched pages were dropped,
\* the second of them after close_spider was called
C18_Witness ==
  \E h \in Handlers :
    /\ content[h].phase \in {"closing", "closed"}
    /\ content[h].close_reason = PageLimitReason
    /\ Cardinality(Unprocessed(h)) >= 2

\* C19: a content crawl requests a URL only if its host is the allowed
\* domain, the host of the seed; no request goes to any other host.
C19_RequestsStayOnSeedHost ==
  \A h \in Handlers :
    HasSpider(h) =>
      \A u \in DOMAIN content[h].requested :
        netloc(u) = netloc(content[h].request.url)

\* the fetch of u was answered while the limit was not reached, and the
\* extraction of its page failed
ExtractionFailed(h, u) ==
  /\ u \in DOMAIN content[h].requested
  /\ u \notin DOMAIN content[h].queued
  /\ u \notin DOMAIN content[h].inflight
  /\ u \notin content[h].failed
  /\ ~LimitReached(content[h].spider)
  /\ ~extract_content(final_url(u)).ok

\* C20: when the extraction of a fetched page fails, its URL is in
\* visited_urls all the same, no content file and no index entry exist for
\* it, and pages_crawled still counts only the stored pages.
C20_ExtractionFailureMarksVisited ==
  \A h \in Handlers :
    HasSpider(h) =>
      \A u \in URLs :
        ExtractionFailed(h, u) =>
          LET dir == TaskDir(content[h].task_id) IN
          /\ final_url(u) \in content[h].spider.visited_urls
          /\ \A n \in DOMAIN dir.pages : dir.pages[n] # final_url(u)
          /\ \A i \in 1..Len(dir.index) : dir.index[i].url # final_url(u)
          /\ Cardinality(DOMAIN dir.pages) = content[h].spider.pages_crawled

\* C21: the failure of a fetch of a URL other than the seed changes none
\* of the crawl's bookkeeping (spider, files, index) and does not stop the
\* crawl: the phase, the scheduled requests and the other requests in
\* flight stay as they are, and a page answered after a failure, below the
\* limit, is still processed.
C21_FetchFailureChangesNothing ==
  [][/\ \A h \in Handlers :
          /\ \A u \in content'[h].failed \ content[h].failed :
               u # content[h].spider.start_url =>
                 /\ content'[h].spider = content[h].spider
                 /\ content'[h].phase = content[h].phase
                 /\ content'[h].queued = content[h].queued
                 /\ content'[h].requested = content[h].requested
                 /\ content'[h].inflight = BagRemove(content[h].inflight, u)
                 /\ source_dirs' = source_dirs
          /\ \A u \in DOMAIN content[h].inflight :
               ( /\ content[h].failed # {}
                 /\ GetInt(content'[h].inflight, u) < content[h].inflight[u]
                 /\ u \notin content'[h].failed
                 /\ ~LimitReached(content[h].spider)
                 /\ extract_content(final_url(u)).ok ) =>
                 final_url(u) \in content'[h].spider.visited_urls
     /\ \A c \in Crawls :
          /\ \A u \in census'[c].failed \ census[c].failed :
               u # census[c].spider.start_url =>
                 /\ census'[c].spider = census[c].spider
                 /\ census'[c].phase = census[c].phase
                 /\ census'[c].queued = census[c].queued
                 /\ census'[c].requested = census[c].requested
                 /\ census'[c].inflight \subseteq census[c].inflight
                 /\ Cardinality(census[c].inflight \ census'[c].inflight) = 1
          /\ \A req \in census[c].inflight \ census'[c].inflight :
               ( /\ census[c].failed # {}
                 /\ census'[c].failed = census[c].failed
                 /\ req.url \notin census[c].failed
                 /\ Cardinality(census[c].spider.found_urls) < MAX_PAGES ) =>
                 final_url(req.url) \in census'[c].spider.found_urls]_vars

\* a content crawl in which the fetch of one link failed and the page of
\* another link, requested by the same callback, was stored
C21_Witness ==
  \E h \in Handlers :
    /\ HasSpider(h)
    /\ content[h].spider.start_url = "s"
    /\ content[h].failed = {"b"}
    /\ content[h].spider.visited_urls = {"s", "c"}

\* C22: whatever the order of the response callbacks, the content files of
\* a crawl are page_1 .. page_N with N = pages_crawled, and the index lists
\* the entries 1 .. N in ascending order, entry n for the URL stored in
\* page_n, each for a distinct URL.
C22_PagesNumberedContiguously ==
  \A h \in Handlers :
    HasSpider(h) =>
      LET dir == TaskDir(content[h].task_id)
          N == content[h].spider.pages_crawled
          entries == IndexEntries(dir)
      IN /\ DOMAIN dir.pages = 1..N
         /\ Len(entries) = N
         /\ \A i \in 1..Len(entries) :
              /\ entries[i].n = i
              /\ i \in DOMAIN dir.pages
              /\ entries[i].url = dir.pages[i]
         /\ \A i, j \in 1..Len(entries) :
              entries[i].url = entries[j].url => i = j

\* C23: two submissions get distinct task ids, whatever the time between
\* them, so that each submission has a registry entry of its own.
C23_TaskIdsDistinct ==
  \A h1, h2 \in Handlers :
    ( /\ h1 # h2
      /\ content[h1].pc \in {"created", "crawling", "done"}
      /\ content[h2].pc \in {"created", "crawling", "done"} ) =>
      /\ content[h1].task_id # content[h2].task_id
      /\ Cardinality(DOMAIN crawl_tasks) = 2

\* the largest number of links on a page
MaxLinks ==
  CHOOSE n \in 0..Cardinality(URLs) :
    /\ \E u \in URLs : Len(hrefs(u)) = n
    /\ \A u \in URLs : Len(hrefs(u)) <= n

\* C25: every crawl terminates.  The number of requests a crawl issues is
\* bounded by its limit, not by the size of the site (at most MAX_PAGES in
\* census mode; the seed and the links of page_limit - 1 pages in content
\* mode), and when every fetch ends, with whatever outcome, the crawl
\* reaches its closed state.
C25_CrawlTerminates ==
  /\ [](\A c \in Crawls :
          SumOver(census[c].requested, DOMAIN census[c].requested)
            <= MAX_PAGES)
  /\ [](\A h \in Handlers :
          HasSpider(h) =>
            BagSize(content[h].requested)
              <= 1 + (content[h].spider.page_limit - 1) * MaxLinks)
  /\ \A c \in Crawls :
       (census[c].phase = "open") ~> (census[c].phase = "closed")
  /\ \A h \in Handlers :
       (content[h].phase = "open") ~> (content[h].phase = "closed")

\* a content crawl of a site with a cycle of links is closed after a fetch
\* failed, having stored as many pages as its limit allows
C25_Witness ==
  \E h \in Handlers :
    /\ content[h].phase = "closed"
    /\ content[h].spider.start_url = "r"
    /\ content[h].failed # {}
    /\ content[h].spider.pages_crawled = content[h].spider.page_limit
    /\ BagSize(content[h].requested) >= 3

StatusStep(from, to) ==
  \/ from = "starting" /\ to = "running"
  \/ from = "running" /\ to \in {"completed", "failed"}

\* C9: the status of a task id in the registry only moves starting ->
\* running -> completed or failed, whatever the submissions and crawl
\* completions; it never moves back and never leaves completed or failed.
C9_StatusOneDirectional ==
  [][\A id \in DOMAIN crawl_tasks :
       \/ crawl_tasks'[id].status = crawl_tasks[id].status
       \/ StatusStep(crawl_tasks[id].status, crawl_tasks'[id].status)]_vars

====
